---- MODULE Spec2Model ----
(***************************************************************************)
(* CpwAutoStraightLine (qiskit_metal/components/interconnects/             *)
(* cpw_autostraightline.py): the auto-routed CPW between two pins.         *)
(*                                                                         *)
(* Lengths are integers counting micrometres (1 mm = 1000).  The code      *)
(* computes in floats; every quantity it forms from the inputs drawn here  *)
(* (sums, differences, halves of even numbers, products with unit          *)
(* normals) is exact, so integer arithmetic gives the same comparisons.    *)
(* The one float operation that is not exact arithmetic, the normalisation *)
(* of the displacement at line 149, is modelled by its outcome classes,    *)
(* including the NaN that 0/0 produces.                                    *)
(***************************************************************************)
EXTENDS Integers, Sequences, FiniteSets, TLC

VARIABLES
    req,        \* the parsed options and the design data make() reads
    pts,        \* self.__pts, the stored vertex list
    rejected,   \* the wrap-around candidate make() built and did not keep
    branch,     \* which assignment of the decision tree produced pts
    made,       \* make() has completed since the options last changed
    qgeometry,  \* what add_qgeometry registered
    cpw_pins,   \* what add_pin registered
    netlist,    \* what connect_pins registered
    ref,        \* the first completed call: its request, its result, and
                \* whether a call with another request has completed since
    call        \* the arguments of the last direct call of getpts

vars == <<req, pts, rejected, branch, made, qgeometry, cpw_pins, netlist, ref,
          call>>

-----------------------------------------------------------------------------
(* Vectors: numpy arrays of two coordinates.                               *)

Abs(a) == IF a < 0 THEN -a ELSE a

Min(a, b) == IF a < b THEN a ELSE b

Max(a, b) == IF a > b THEN a ELSE b

Add(p, q) == <<p[1] + q[1], p[2] + q[2]>>

Sub(p, q) == <<p[1] - q[1], p[2] - q[2]>>

Scale(k, p) == <<k * p[1], k * p[2]>>

Dot(p, q) == p[1] * q[1] + p[2] * q[2]

\* numpy.linalg.norm of a vector with one zero coordinate.  totlength is only
\* applied to 3-segment vertex lists, all of whose segments are parallel to
\* an axis; for any other vector the norm is the floor of the square root.
RECURSIVE ISqrt(_, _, _)
ISqrt(n, lo, hi) ==
    IF lo >= hi THEN lo
    ELSE LET mid == (lo + hi + 1) \div 2
         IN  IF mid * mid <= n THEN ISqrt(n, mid, hi) ELSE ISqrt(n, lo, mid - 1)

norm(v) ==
    IF v[1] = 0 THEN Abs(v[2])
    ELSE IF v[2] = 0 THEN Abs(v[1])
    ELSE ISqrt(Dot(v, v), 0, Abs(v[1]) + Abs(v[2]))

-----------------------------------------------------------------------------
(* Program constants.                                                      *)

\* Lines 115-116: the keep-out margins, 0.2 mm.
keepoutx == 200

\* The keep-out margin halved.
keepoutyHalf == keepoutx \div 2

keepouty == 200

\* LeadLen without the mandatory half width.
LeadLenNoHalf(width, lead) == lead

\* width / 2 + lead: the mandatory half-width lead plus the user's lead
LeadLen(width, lead) == width \div 2 + lead

\* pin.middle + pin.normal * (width / 2 + lead)
StandOff(pin, width, lead) == Add(pin.middle, Scale(LeadLen(width, lead), pin.normal))

-----------------------------------------------------------------------------
(* getpts                                                                  *)

\* Corner without the tests of lines 70-77: always corner1.
CornerFirst(startpin, endpin, width, leadstart, leadend) ==
    LET s == StandOff(startpin, width, leadstart)
        e == StandOff(endpin, width, leadend)
    IN  <<s[1], e[2]>>

\* Corner with the fall-back of lines 74-77 taking the other corner.
CornerFallbackOther(startpin, endpin, width, leadstart, leadend) ==
    LET s == StandOff(startpin, width, leadstart)
        e == StandOff(endpin, width, leadend)
        corner1 == <<s[1], e[2]>>
        corner2 == <<e[1], s[2]>>
        startc1 == Dot(Sub(corner1, s), startpin.normal)
        endc1 == Dot(Sub(corner1, e), endpin.normal)
        startc2 == Dot(Sub(corner2, s), startpin.normal)
        endc2 == Dot(Sub(corner2, e), endpin.normal)
    IN  IF (startc1 > 0) /\ (endc1 > 0) THEN corner1
        ELSE IF (startc2 > 0) /\ (endc2 > 0) THEN corner2
        ELSE IF Min(startc1, endc1) >= 0 THEN corner2
        ELSE corner1

\* The 2-segment corner choice, lines 61-77.
Corner(startpin, endpin, width, leadstart, leadend) ==
    LET s == StandOff(startpin, width, leadstart)
        e == StandOff(endpin, width, leadend)
        corner1 == <<s[1], e[2]>>
        corner2 == <<e[1], s[2]>>
        startc1 == Dot(Sub(corner1, s), startpin.normal)
        endc1 == Dot(Sub(corner1, e), endpin.normal)
        startc2 == Dot(Sub(corner2, s), startpin.normal)
        endc2 == Dot(Sub(corner2, e), endpin.normal)
    IN  IF (startc1 > 0) /\ (endc1 > 0) THEN corner1
        ELSE IF (startc2 > 0) /\ (endc2 > 0) THEN corner2
        ELSE IF Min(startc1, endc1) >= 0 THEN corner1
        ELSE corner2

\* MidLine with the two waypoints in the other order.
MidLineSwapped(startpin, endpin, width, leadstart, leadend, constaxis, constval) ==
    LET s == StandOff(startpin, width, leadstart)
        e == StandOff(endpin, width, leadend)
    IN  IF constaxis = 0
        THEN << <<constval, e[2]>>, <<constval, s[2]>> >>
        ELSE << <<e[1], constval>>, <<s[1], constval>> >>

\* The two waypoints of a 3-segment CPW, lines 81-89.
MidLine(startpin, endpin, width, leadstart, leadend, constaxis, constval) ==
    LET s == StandOff(startpin, width, leadstart)
        e == StandOff(endpin, width, leadend)
    IN  IF constaxis = 0
        THEN << <<constval, s[2]>>, <<constval, e[2]>> >>
        ELSE << <<s[1], constval>>, <<e[1], constval>> >>

\* getpts with the 2-segment case falling into the 1-segment case.
getptsNoCorner(startpin, endpin, width, segments, leadstart, leadend, constaxis, constval) ==
    LET midcoords ==
            IF segments <= 2 THEN << >>
            ELSE MidLine(startpin, endpin, width, leadstart, leadend,
                         constaxis, constval)
        startpts == << startpin.middle, StandOff(startpin, width, leadstart) >>
        endpts == << StandOff(endpin, width, leadend), endpin.middle >>
    IN  startpts \o midcoords \o endpts

getpts(startpin, endpin, width, segments, leadstart, leadend, constaxis, constval) ==
    LET midcoords ==
            IF segments = 1 THEN << >>
            ELSE IF segments = 2
                 THEN << Corner(startpin, endpin, width, leadstart, leadend) >>
                 ELSE MidLine(startpin, endpin, width, leadstart, leadend,
                              constaxis, constval)
        startpts == << startpin.middle, StandOff(startpin, width, leadstart) >>
        endpts == << StandOff(endpin, width, leadend), endpin.middle >>
    IN  startpts \o midcoords \o endpts

-----------------------------------------------------------------------------
(* totlength                                                               *)

RECURSIVE SumNorms(_, _)
SumNorms(p, i) ==
    IF i > Len(p) THEN 0 ELSE norm(Sub(p[i], p[i - 1])) + SumNorms(p, i + 1)

totlength(p) == SumNorms(p, 2)

-----------------------------------------------------------------------------
(* make: the decision tree, lines 108-318.                                 *)

\* Reset without the assignment of line 108: the old list is kept.
ResetKeeps(old) == old

\* Line 108: the stored list is emptied before anything is read.
Reset(old) == << >>

\* Alignment with the displacement taken from the end to the start.
AlignmentReversed(m1ext, m2ext, n1) ==
    LET d == Sub(m1ext, m2ext)
        along == Dot(d, n1)
    IN  IF d = <<0, 0>> THEN "nan"
        ELSE IF along > 0 /\ Dot(d, d) = along * along THEN "one"
        ELSE IF along > 0 THEN "pos"
        ELSE IF along = 0 THEN "zero"
        ELSE "neg"

\* Line 149: alignment = dot((m2ext - m1ext) / norm(m2ext - m1ext), n1), by
\* the outcome of its four comparisons.  n1 is a unit vector along an axis,
\* so the value is 1 exactly when the displacement is a positive multiple of
\* n1, and its sign is the sign of dot(m2ext - m1ext, n1).  A zero
\* displacement divides 0 by 0: the value is NaN and every comparison with
\* it is false.
Alignment(m1ext, m2ext, n1) ==
    LET d == Sub(m2ext, m1ext)
        along == Dot(d, n1)
    IN  IF d = <<0, 0>> THEN "nan"
        ELSE IF along > 0 /\ Dot(d, d) = along * along THEN "one"
        ELSE IF along > 0 THEN "pos"
        ELSE IF along = 0 THEN "zero"
        ELSE "neg"

\* Shortest with the comparison turned round: the longer candidate is kept.
ShortestFlipped(first, second, bfirst, bsecond) ==
    IF totlength(first) > totlength(second)
    THEN [pts |-> first, rejected |-> second, branch |-> bfirst]
    ELSE [pts |-> second, rejected |-> first, branch |-> bsecond]

\* Shortest with the first candidate kept on a tie.
ShortestOrEqual(first, second, bfirst, bsecond) ==
    IF totlength(first) <= totlength(second)
    THEN [pts |-> first, rejected |-> second, branch |-> bfirst]
    ELSE [pts |-> second, rejected |-> first, branch |-> bsecond]

\* Lines 187-190, 203-206, 300-303, 315-318: the first candidate is kept
\* only when it is strictly shorter.
Shortest(first, second, bfirst, bsecond) ==
    IF totlength(first) < totlength(second)
    THEN [pts |-> first, rejected |-> second, branch |-> bfirst]
    ELSE [pts |-> second, rejected |-> first, branch |-> bsecond]

Out(p, b) == [pts |-> p, rejected |-> << >>, branch |-> b]

\* Antiparallel with the gap-crossing lines of alignment < 0 placed between
\* the boxes' outer edges, as the S-bend lines are.
AntiparallelOuterEdges(r, old) ==
    LET c1 == r.start
        c2 == r.end
        w == r.cpw_width
        ls == r.leadstart
        le == r.leadend
        n1 == c1.normal
        minx1 == r.box1[1]
        miny1 == r.box1[2]
        maxx1 == r.box1[3]
        maxy1 == r.box1[4]
        minx2 == r.box2[1]
        miny2 == r.box2[2]
        maxx2 == r.box2[3]
        maxy2 == r.box2[4]
        minx == Min(minx1, minx2)
        miny == Min(miny1, miny2)
        maxx == Max(maxx1, maxx2)
        maxy == Max(maxy1, maxy2)
        m1ext == StandOff(c1, w, ls)
        m2ext == StandOff(c2, w, le)
        alignment == Alignment(m1ext, m2ext, n1)
        G(seg, axis, val) == getpts(c1, c2, w, seg, ls, le, axis, val)
    IN  IF alignment = "one" THEN Out(G(1, 0, 0), "L153")
        ELSE IF alignment = "pos" THEN
            IF n1[2] = 0
            THEN IF minx2 < maxx1
                 THEN Out(G(3, 0, (minx2 + maxx1) \div 2), "L160")
                 ELSE Out(G(3, 0, (minx1 + maxx2) \div 2), "L162")
            ELSE IF miny2 < maxy1
                 THEN Out(G(3, 1, (miny2 + maxy1) \div 2), "L166")
                 ELSE Out(G(3, 1, (miny1 + maxy2) \div 2), "L168")
        ELSE IF alignment = "zero" THEN Out(G(1, 0, 0), "L172")
        ELSE IF alignment = "neg" THEN
            IF n1[2] = 0
            THEN IF maxy1 < miny2
                 THEN Out(G(3, 1, (miny1 + maxy2) \div 2), "L178")
                 ELSE IF maxy2 < miny1
                 THEN Out(G(3, 1, (miny2 + maxy1) \div 2), "L180")
                 ELSE Shortest(G(3, 1, maxy + keepouty), G(3, 1, miny - keepouty),
                               "L188", "L190")
            ELSE IF maxx1 < minx2
                 THEN Out(G(3, 0, (minx1 + maxx2) \div 2), "L194")
                 ELSE IF maxx2 < minx1
                 THEN Out(G(3, 0, (minx2 + maxx1) \div 2), "L196")
                 ELSE Shortest(G(3, 0, minx - keepoutx), G(3, 0, maxx + keepoutx),
                               "L204", "L206")
        ELSE Out(old, "none")

\* Lines 144-206: normdot == -1.
Antiparallel(r, old) ==
    LET c1 == r.start
        c2 == r.end
        w == r.cpw_width
        ls == r.leadstart
        le == r.leadend
        n1 == c1.normal
        minx1 == r.box1[1]
        miny1 == r.box1[2]
        maxx1 == r.box1[3]
        maxy1 == r.box1[4]
        minx2 == r.box2[1]
        miny2 == r.box2[2]
        maxx2 == r.box2[3]
        maxy2 == r.box2[4]
        minx == Min(minx1, minx2)
        miny == Min(miny1, miny2)
        maxx == Max(maxx1, maxx2)
        maxy == Max(maxy1, maxy2)
        m1ext == StandOff(c1, w, ls)
        m2ext == StandOff(c2, w, le)
        alignment == Alignment(m1ext, m2ext, n1)
        G(seg, axis, val) == getpts(c1, c2, w, seg, ls, le, axis, val)
    IN  IF alignment = "one" THEN Out(G(1, 0, 0), "L153")
        ELSE IF alignment = "pos" THEN
            IF n1[2] = 0
            THEN IF minx2 < maxx1
                 THEN Out(G(3, 0, (minx2 + maxx1) \div 2), "L160")
                 ELSE Out(G(3, 0, (minx1 + maxx2) \div 2), "L162")
            ELSE IF miny2 < maxy1
                 THEN Out(G(3, 1, (miny2 + maxy1) \div 2), "L166")
                 ELSE Out(G(3, 1, (miny1 + maxy2) \div 2), "L168")
        ELSE IF alignment = "zero" THEN Out(G(1, 0, 0), "L172")
        ELSE IF alignment = "neg" THEN
            IF n1[2] = 0
            THEN IF maxy1 < miny2
                 THEN Out(G(3, 1, (maxy1 + miny2) \div 2), "L178")
                 ELSE IF maxy2 < miny1
                 THEN Out(G(3, 1, (maxy2 + miny1) \div 2), "L180")
                 ELSE Shortest(G(3, 1, maxy + keepouty), G(3, 1, miny - keepouty),
                               "L188", "L190")
            ELSE IF maxx1 < minx2
                 THEN Out(G(3, 0, (maxx1 + minx2) \div 2), "L194")
                 ELSE IF maxx2 < minx1
                 THEN Out(G(3, 0, (maxx2 + minx1) \div 2), "L196")
                 ELSE Shortest(G(3, 0, minx - keepoutx), G(3, 0, maxx + keepoutx),
                               "L204", "L206")
        ELSE Out(old, "none")

\* Perpendicular with the box comparisons of lines 230 and 236 repeated at
\* lines 260 and 266, where the roles of the two pins are exchanged.
PerpendicularCopied(r, old) ==
    LET c1 == r.start
        c2 == r.end
        w == r.cpw_width
        ls == r.leadstart
        le == r.leadend
        n1 == c1.normal
        n2 == c2.normal
        m1 == c1.middle
        m2 == c2.middle
        minx1 == r.box1[1]
        miny1 == r.box1[2]
        maxx1 == r.box1[3]
        maxy1 == r.box1[4]
        minx2 == r.box2[1]
        miny2 == r.box2[2]
        maxx2 == r.box2[3]
        maxy2 == r.box2[4]
        minx == Min(minx1, minx2)
        miny == Min(miny1, miny2)
        maxx == Max(maxx1, maxx2)
        maxy == Max(maxy1, maxy2)
        G(seg, axis, val) == getpts(c1, c2, w, seg, ls, le, axis, val)
    IN  IF (m1[1] \in {minx, maxx}) /\ (m2[2] \in {miny, maxy})
        THEN Out(G(2, 0, 0), "L211")
        ELSE IF (m1[2] \in {miny, maxy}) /\ (m2[1] \in {minx, maxx})
        THEN Out(G(2, 0, 0), "L214")
        ELSE IF (m1[1] \notin {minx, maxx}) /\ (m2[1] \notin {minx, maxx})
                /\ (m1[2] \notin {miny, maxy}) /\ (m2[2] \notin {miny, maxy})
        THEN IF (m1[1] = m2[1]) \/ (m1[2] = m2[2])
             THEN Out(G(1, 0, 0), "L220")
             ELSE Out(G(2, 0, 0), "L223")
        ELSE IF (m1[1] \in {minx, maxx}) \/ (m1[2] \in {miny, maxy})
        THEN IF m1[1] \in {minx, maxx}
             THEN IF n2[2] > 0
                  THEN IF miny1 > maxy2
                       THEN Out(G(2, 0, 0), "L231")
                       ELSE Out(G(3, 1, maxy + keepouty), "L233")
                  ELSE IF miny2 > maxy1
                       THEN Out(G(2, 0, 0), "L237")
                       ELSE Out(G(3, 1, miny - keepouty), "L239")
             ELSE IF m1[2] \in {miny, maxy}
             THEN IF n2[1] < 0
                  THEN IF minx2 > maxx1
                       THEN Out(G(2, 0, 0), "L245")
                       ELSE Out(G(3, 0, minx - keepoutx), "L247")
                  ELSE IF minx1 > maxx2
                       THEN Out(G(2, 0, 0), "L251")
                       ELSE Out(G(3, 0, maxx + keepoutx), "L253")
             ELSE Out(old, "none")
        ELSE IF (m2[1] \in {minx, maxx}) \/ (m2[2] \in {miny, maxy})
        THEN IF m2[1] \in {minx, maxx}
             THEN IF n1[2] > 0
                  THEN IF miny1 > maxy2
                       THEN Out(G(2, 0, 0), "L261")
                       ELSE Out(G(3, 1, maxy + keepouty), "L263")
                  ELSE IF miny2 > maxy1
                       THEN Out(G(2, 0, 0), "L267")
                       ELSE Out(G(3, 1, miny - keepouty), "L269")
             ELSE IF m2[2] \in {miny, maxy}
             THEN IF n1[1] < 0
                  THEN IF minx1 > maxx2
                       THEN Out(G(2, 0, 0), "L275")
                       ELSE Out(G(3, 0, minx - keepoutx), "L277")
                  ELSE IF minx2 > maxx1
                       THEN Out(G(2, 0, 0), "L281")
                       ELSE Out(G(3, 0, maxx + keepoutx), "L283")
             ELSE Out(old, "none")
        ELSE Out(old, "none")

\* Lines 207-283: normdot == 0.
Perpendicular(r, old) ==
    LET c1 == r.start
        c2 == r.end
        w == r.cpw_width
        ls == r.leadstart
        le == r.leadend
        n1 == c1.normal
        n2 == c2.normal
        m1 == c1.middle
        m2 == c2.middle
        minx1 == r.box1[1]
        miny1 == r.box1[2]
        maxx1 == r.box1[3]
        maxy1 == r.box1[4]
        minx2 == r.box2[1]
        miny2 == r.box2[2]
        maxx2 == r.box2[3]
        maxy2 == r.box2[4]
        minx == Min(minx1, minx2)
        miny == Min(miny1, miny2)
        maxx == Max(maxx1, maxx2)
        maxy == Max(maxy1, maxy2)
        G(seg, axis, val) == getpts(c1, c2, w, seg, ls, le, axis, val)
    IN  IF (m1[1] \in {minx, maxx}) /\ (m2[2] \in {miny, maxy})
        THEN Out(G(2, 0, 0), "L211")
        ELSE IF (m1[2] \in {miny, maxy}) /\ (m2[1] \in {minx, maxx})
        THEN Out(G(2, 0, 0), "L214")
        ELSE IF (m1[1] \notin {minx, maxx}) /\ (m2[1] \notin {minx, maxx})
                /\ (m1[2] \notin {miny, maxy}) /\ (m2[2] \notin {miny, maxy})
        THEN IF (m1[1] = m2[1]) \/ (m1[2] = m2[2])
             THEN Out(G(1, 0, 0), "L220")
             ELSE Out(G(2, 0, 0), "L223")
        ELSE IF (m1[1] \in {minx, maxx}) \/ (m1[2] \in {miny, maxy})
        THEN IF m1[1] \in {minx, maxx}
             THEN IF n2[2] > 0
                  THEN IF miny1 > maxy2
                       THEN Out(G(2, 0, 0), "L231")
                       ELSE Out(G(3, 1, maxy + keepouty), "L233")
                  ELSE IF miny2 > maxy1
                       THEN Out(G(2, 0, 0), "L237")
                       ELSE Out(G(3, 1, miny - keepouty), "L239")
             ELSE IF m1[2] \in {miny, maxy}
             THEN IF n2[1] < 0
                  THEN IF minx2 > maxx1
                       THEN Out(G(2, 0, 0), "L245")
                       ELSE Out(G(3, 0, minx - keepoutx), "L247")
                  ELSE IF minx1 > maxx2
                       THEN Out(G(2, 0, 0), "L251")
                       ELSE Out(G(3, 0, maxx + keepoutx), "L253")
             ELSE Out(old, "none")
        ELSE IF (m2[1] \in {minx, maxx}) \/ (m2[2] \in {miny, maxy})
        THEN IF m2[1] \in {minx, maxx}
             THEN IF n1[2] > 0
                  THEN IF miny2 > maxy1
                       THEN Out(G(2, 0, 0), "L261")
                       ELSE Out(G(3, 1, maxy + keepouty), "L263")
                  ELSE IF miny1 > maxy2
                       THEN Out(G(2, 0, 0), "L267")
                       ELSE Out(G(3, 1, miny - keepouty), "L269")
             ELSE IF m2[2] \in {miny, maxy}
             THEN IF n1[1] < 0
                  THEN IF minx1 > maxx2
                       THEN Out(G(2, 0, 0), "L275")
                       ELSE Out(G(3, 0, minx - keepoutx), "L277")
                  ELSE IF minx2 > maxx1
                       THEN Out(G(2, 0, 0), "L281")
                       ELSE Out(G(3, 0, maxx + keepoutx), "L283")
             ELSE Out(old, "none")
        ELSE Out(old, "none")

\* Lines 284-318: the normals point in the same direction.
Parallel(r, old) ==
    LET c1 == r.start
        c2 == r.end
        w == r.cpw_width
        ls == r.leadstart
        le == r.leadend
        n1 == c1.normal
        m1 == c1.middle
        m2 == c2.middle
        maxx1 == r.box1[3]
        maxy1 == r.box1[4]
        maxx2 == r.box2[3]
        maxy2 == r.box2[4]
        minx == Min(r.box1[1], r.box2[1])
        miny == Min(r.box1[2], r.box2[2])
        maxx == Max(maxx1, maxx2)
        maxy == Max(maxy1, maxy2)
        G(seg, axis, val) == getpts(c1, c2, w, seg, ls, le, axis, val)
    IN  IF ((m1[1] = m2[1]) \/ (m1[2] = m2[2])) /\ (Dot(n1, Sub(m2, m1)) = 0)
        THEN Out(G(1, 0, 0), "L288")
        ELSE IF n1[2] = 0
        THEN IF (m1[2] > maxy2) \/ (m2[2] > maxy1)
             THEN Out(G(2, 0, 0), "L293")
             ELSE Shortest(G(3, 1, maxy + keepouty), G(3, 1, miny - keepouty),
                           "L301", "L303")
        ELSE IF (m1[1] > maxx2) \/ (m2[1] > maxx1)
             THEN Out(G(2, 0, 0), "L308")
             ELSE Shortest(G(3, 0, minx - keepoutx), G(3, 0, maxx + keepoutx),
                           "L316", "L318")

\* Lines 108-318: the vertex list make() computes, given the list the
\* previous call left in self.__pts.
Route(r, stale) ==
    LET old == Reset(stale)
        normdot == Dot(r.start.normal, r.end.normal)
    IN  IF normdot = -1 THEN Antiparallel(r, old)
        ELSE IF normdot = 0 THEN Perpendicular(r, old)
        ELSE Parallel(r, old)

\* Lines 320-325: the two path shapes built from the one vertex list.
Geometry(r, line) ==
    { [kind |-> "path", name |-> "center_trace", line |-> line,
       width |-> r.cpw_width, subtract |-> FALSE, layer |-> r.layer],
      [kind |-> "path", name |-> "gnd_cut", line |-> line,
       width |-> r.cpw_width + 2 * r.cpw_gap, subtract |-> TRUE, layer |-> "default"] }

\* connector.points[::-1]
Reversed(points) == [i \in 1..Len(points) |-> points[Len(points) + 1 - i]]

\* NewPins with the host pins' point order kept.
NewPinsNotReversed(r) ==
    [name \in {"auto_cpw_start", "auto_cpw_end"} |->
        [points |-> IF name = "auto_cpw_start" THEN r.start.points
                    ELSE r.end.points,
         width |-> r.cpw_width]]

\* Lines 327-329: the CPW's own pins.
NewPins(r) ==
    [name \in {"auto_cpw_start", "auto_cpw_end"} |->
        [points |-> Reversed(IF name = "auto_cpw_start" THEN r.start.points
                             ELSE r.end.points),
         width |-> r.cpw_width]]

\* Lines 331-335: the two netlist connections.
Connections(r) ==
    { << <<r.start.component, r.start.name>>, <<"self", "auto_cpw_start">> >>,
      << <<r.end.component, r.end.name>>, <<"self", "auto_cpw_end">> >> }

NoCall == [req |-> << >>, pts |-> << >>, other |-> FALSE]

NoArgs == [segments |-> 0, constaxis |-> 0, constval |-> 0]

\* make(), lines 98-335.
make ==
    LET out == Route(req, pts)
    IN  /\ pts' = out.pts
        /\ rejected' = out.rejected
        /\ branch' = out.branch
        /\ made' = TRUE
        /\ qgeometry' = Geometry(req, out.pts)
        /\ cpw_pins' = NewPins(req)
        /\ netlist' = Connections(req)
        /\ ref' = IF ref = NoCall
                  THEN [req |-> req, pts |-> out.pts, other |-> FALSE]
                  ELSE [ref EXCEPT !.other = @ \/ (req # ref.req)]
        /\ UNCHANGED <<req, call>>

-----------------------------------------------------------------------------
(* The requests.  Box edges lie on an even grid (so the halves at lines    *)
(* 160-196 are exact), pins lie on box edges, and the CPW width is even.   *)

\* Grid pitch: 0.2 mm.
Grid(k) == 200 * k

\* Sides of the (square) boxes, in grid steps.
MaxSize == 3

Sizes == {1, MaxSize}

\* Positions of the end component's lower left corner, in grid steps; the
\* start component's lower left corner is the origin.
MaxPos == 4

Positions == (0 - MaxPos)..MaxPos

\* leadin.start and leadin.end: the default 22um (lines 31-32), and a lead
\* that with the half width makes a stand-off of one and a half grid steps,
\* longer than the narrowest gap between two boxes.
Leads == {22, 295}

\* The values of the design variables cpw_width and cpw_gap (lines 27-28):
\* 10um and 6um.
Width == 10

Gap == 6

Normals == { <<1, 0>>, <<-1, 0>>, <<0, 1>>, <<0, -1>> }

Box(px, py, sx, sy) == <<Grid(px), Grid(py), Grid(px + sx), Grid(py + sy)>>

\* The length of the edge the normal n points out of.
EdgeLen(box, n) == IF n[2] = 0 THEN box[4] - box[2] ELSE box[3] - box[1]

\* A pin given by its place.
Pin(middle, n, comp, name) ==
    LET t == <<n[2], n[1]>>
    IN  [middle |-> middle, normal |-> n,
         points |-> << Sub(middle, Scale(Width \div 2, t)),
                       Add(middle, Scale(Width \div 2, t)) >>,
         component |-> comp, name |-> name]

\* A pin on the edge of box that faces n, at distance off from the edge's
\* lower (left) end.
PinOn(box, n, off, comp, name) ==
    Pin(IF n = <<1, 0>> THEN <<box[3], box[2] + off>>
        ELSE IF n = <<-1, 0>> THEN <<box[1], box[2] + off>>
        ELSE IF n = <<0, 1>> THEN <<box[1] + off, box[4]>>
        ELSE <<box[1] + off, box[2]>>,
        n, comp, name)

\* Pin places along an edge: the middle of an edge of one grid step, and one
\* grid step from either end of a longer edge.
InnerOffsets(len) ==
    IF len = Grid(1) THEN {Grid(1) \div 2} ELSE {Grid(1), len - Grid(1)}

Request(b1, b2, n1, n2, o1, o2, ls, le) ==
    [start |-> PinOn(b1, n1, o1, "Q1", "a"),
     end |-> PinOn(b2, n2, o2, "Q2", "b"),
     box1 |-> b1, box2 |-> b2,
     cpw_width |-> Width, cpw_gap |-> Gap, layer |-> "1",
     leadstart |-> ls, leadend |-> le]

\* Assumptions 1 and 4: the boxes do not overlap and do not touch.
Apart(b1, b2) ==
    \/ b1[3] < b2[1]
    \/ b2[3] < b1[1]
    \/ b1[4] < b2[2]
    \/ b2[4] < b1[2]

\* Assumptions 2 and 5: the pin sits on the edge of its box that its normal
\* points out of, strictly between the corners.
HeadOn(pin, box) ==
    IF pin.normal[2] = 0
    THEN /\ pin.middle[1] = (IF pin.normal[1] = 1 THEN box[3] ELSE box[1])
         /\ box[2] < pin.middle[2]
         /\ pin.middle[2] < box[4]
    ELSE /\ pin.middle[2] = (IF pin.normal[2] = 1 THEN box[4] ELSE box[2])
         /\ box[1] < pin.middle[1]
         /\ pin.middle[1] < box[3]

Valid(r) ==
    /\ r.start.normal \in Normals
    /\ r.end.normal \in Normals
    /\ Apart(r.box1, r.box2)
    /\ HeadOn(r.start, r.box1)
    /\ HeadOn(r.end, r.box2)

Fresh(r) ==
    /\ req = r
    /\ pts = << >>
    /\ rejected = << >>
    /\ branch = "none"
    /\ made = FALSE
    /\ qgeometry = {}
    /\ cpw_pins = << >>
    /\ netlist = {}
    /\ ref = NoCall
    /\ call = NoArgs

Scenario(m1, n1, b1, m2, n2, b2) ==
    [start |-> Pin(m1, n1, "Q1", "a"), end |-> Pin(m2, n2, "Q2", "b"),
     box1 |-> b1, box2 |-> b2,
     cpw_width |-> Width, cpw_gap |-> Gap, layer |-> "1",
     leadstart |-> 22, leadend |-> 22]

\* Pins 10 mm apart on one horizontal line, facing each other, each in the
\* middle of the facing edge of a box of 2 mm.
ScenarioA ==
    Scenario(<<0, 0>>, <<1, 0>>, <<-2000, -1000, 0, 1000>>,
             <<10000, 0>>, <<-1, 0>>, <<10000, -1000, 12000, 1000>>)

\* Box (0,0)-(2,2) with a pin at (2,1) pointing right; box (3,3)-(5,5) with
\* a pin at (4,5) pointing up.
ScenarioB ==
    Scenario(<<2000, 1000>>, <<1, 0>>, <<0, 0, 2000, 2000>>,
             <<4000, 5000>>, <<0, 1>>, <<3000, 3000, 5000, 5000>>)

\* Box (-1,0)-(1,1) with a pin at (0,0) pointing down; box (-1,-11)-(1,-10)
\* with a pin at (0,-10) pointing up.
ScenarioC ==
    Scenario(<<0, 0>>, <<0, -1>>, <<-1000, 0, 1000, 1000>>,
             <<0, -10000>>, <<0, 1>>, <<-1000, -11000, 1000, -10000>>)

Scenarios == {ScenarioA, ScenarioB, ScenarioC}

\* The valid requests of the grid: two square boxes that do not touch, the
\* start box at the origin, each with a pin on one of its edges.
GridInit ==
    \E s1 \in Sizes, s2 \in Sizes, px \in Positions, py \in Positions,
       n1 \in Normals, n2 \in Normals, ls \in Leads, le \in Leads :
        LET b1 == Box(0, 0, s1, s1)
            b2 == Box(px, py, s2, s2)
        IN  /\ Apart(b1, b2)
            /\ \E o1 \in InnerOffsets(EdgeLen(b1, n1)),
                  o2 \in InnerOffsets(EdgeLen(b2, n2)) :
                    Fresh(Request(b1, b2, n1, n2, o1, o2, ls, le))

Init == GridInit \/ \E r \in Scenarios : Fresh(r)

Next == make

Spec == Init /\ [][Next]_vars

\* The user edits the leadin options (lines 30-33, read at lines 113-114);
\* what make() registered and stored stays until make() runs again.
SetLeadin ==
    \E ls \in Leads, le \in Leads :
        /\ <<ls, le>> # <<req.leadstart, req.leadend>>
        /\ req' = [req EXCEPT !.leadstart = ls, !.leadend = le]
        /\ made' = FALSE
        /\ UNCHANGED <<pts, rejected, branch, qgeometry, cpw_pins, netlist, ref,
                       call>>

\* Repeated calls: two boxes of one grid step, the options edited between
\* the calls.
InitCalls ==
    \E px \in Positions, py \in Positions, n1 \in Normals, n2 \in Normals,
       ls \in Leads, le \in Leads :
        LET b1 == Box(0, 0, 1, 1)
            b2 == Box(px, py, 1, 1)
        IN  /\ Apart(b1, b2)
            /\ Fresh(Request(b1, b2, n1, n2, Grid(1) \div 2, Grid(1) \div 2, ls, le))

NextCalls == make \/ SetLeadin

SpecCalls == InitCalls /\ [][NextCalls]_vars

\* The request with the roles of start and end exchanged: the two pins
\* (pin_inputs, lines 118-121), with them the two boxes (lines 134-135), and
\* the two leads (lines 113-114).
Exchanged(r) ==
    [r EXCEPT !.start = r.end, !.end = r.start,
              !.box1 = r.box2, !.box2 = r.box1,
              !.leadstart = r.leadend, !.leadend = r.leadstart]

\* The user exchanges start_pin and end_pin, and leadin.start and
\* leadin.end, in the options; what make() registered and stored stays until
\* make() runs again.  The options are exchanged once, after the first
\* completed call.
Exchange ==
    /\ made
    /\ req = ref.req
    /\ req' = Exchanged(req)
    /\ made' = FALSE
    /\ UNCHANGED <<pts, rejected, branch, qgeometry, cpw_pins, netlist, ref,
                   call>>

NextExchange == make \/ Exchange

SpecExchange == Init /\ [][NextExchange]_vars

\* The constant lines a direct call of getpts is given: on and off the grid,
\* on either side of the origin.
ConstVals == {Grid(0 - 2), 0 - 27, 0, 300, Grid(2) + 200}

\* getpts() called on its own (lines 37-92) with the pins and leads of the
\* request: 1 or 2 segments with the default constaxis = 0 and constval = 0,
\* or 3 segments on any of the constant lines.
CallGetpts ==
    \E segments \in 1..3, constaxis \in {0, 1}, constval \in ConstVals :
        /\ segments < 3 => (constaxis = 0 /\ constval = 0)
        /\ pts' = getpts(req.start, req.end, req.cpw_width, segments,
                         req.leadstart, req.leadend, constaxis, constval)
        /\ call' = [segments |-> segments, constaxis |-> constaxis,
                    constval |-> constval]
        /\ UNCHANGED <<req, rejected, branch, made, qgeometry, cpw_pins, netlist,
                       ref>>

NextGetpts == CallGetpts

SpecGetpts == InitCalls /\ [][NextGetpts]_vars

-----------------------------------------------------------------------------
(* Geometry the claims are stated with.                                    *)

\* Fractions num/den with den > 0, compared by cross multiplication.
Less(f, g) == f[1] * g[2] < g[1] * f[2]

\* The bounds that lo < p + t * d < hi puts on t, as two sets of fractions
\* (strict lower bounds, strict upper bounds); d # 0.
TBounds(p, d, lo, hi) ==
    IF d > 0
    THEN [lower |-> { <<lo - p, d>> }, upper |-> { <<hi - p, d>> }]
    ELSE [lower |-> { <<p - hi, 0 - d>> }, upper |-> { <<p - lo, 0 - d>> }]

\* The closed segment from p to q meets the open interior of box.
HitsInterior(p, q, box) ==
    LET dx == q[1] - p[1]
        dy == q[2] - p[2]
        bx == IF dx = 0 THEN [lower |-> {}, upper |-> {}]
              ELSE TBounds(p[1], dx, box[1], box[3])
        by == IF dy = 0 THEN [lower |-> {}, upper |-> {}]
              ELSE TBounds(p[2], dy, box[2], box[4])
        lower == bx.lower \cup by.lower
        upper == bx.upper \cup by.upper
    IN  /\ dx = 0 => (box[1] < p[1] /\ p[1] < box[3])
        /\ dy = 0 => (box[2] < p[2] /\ p[2] < box[4])
        /\ \A l \in lower : Less(l, <<1, 1>>)
        /\ \A u \in upper : Less(<<0, 1>>, u)
        /\ \A l \in lower, u \in upper : Less(l, u)

\* Some segment of the vertex list p meets the interior of box.
CrossesBox(p, box) ==
    \E i \in 1..(Len(p) - 1) : HitsInterior(p[i], p[i + 1], box)

\* The segments p[i] -> p[i+1] and p[i+1] -> p[i+2] have exactly opposite
\* directions.
FoldAt(p, i) ==
    LET u == Sub(p[i + 1], p[i])
        v == Sub(p[i + 2], p[i + 1])
    IN  /\ u[1] * v[2] = u[2] * v[1]
        /\ Dot(u, v) < 0

Folds(p) == \E i \in 1..(Len(p) - 2) : FoldAt(p, i)

\* Every segment of p is parallel to an axis.
Rectilinear(p) ==
    \A i \in 1..(Len(p) - 1) : p[i][1] = p[i + 1][1] \/ p[i][2] = p[i + 1][2]

\* The sum of the distances between consecutive vertices of a rectilinear p.
RECURSIVE RectLength(_)
RectLength(p) ==
    IF Len(p) < 2 THEN 0
    ELSE Abs(p[2][1] - p[1][1]) + Abs(p[2][2] - p[1][2]) + RectLength(Tail(p))

\* The two stand-off points of the request: position + normal * (width/2 +
\* lead).
m1ext ==
    << req.start.middle[1] + req.start.normal[1] * (req.cpw_width \div 2 + req.leadstart),
       req.start.middle[2] + req.start.normal[2] * (req.cpw_width \div 2 + req.leadstart) >>

m2ext ==
    << req.end.middle[1] + req.end.normal[1] * (req.cpw_width \div 2 + req.leadend),
       req.end.middle[2] + req.end.normal[2] * (req.cpw_width \div 2 + req.leadend) >>

\* The enclosing box of the two components.
Enclosing ==
    << Min(req.box1[1], req.box2[1]), Min(req.box1[2], req.box2[2]),
       Max(req.box1[3], req.box2[3]), Max(req.box1[4], req.box2[4]) >>

Cross(u, v) == u[1] * v[2] - u[2] * v[1]

normdot == Dot(req.start.normal, req.end.normal)

-----------------------------------------------------------------------------
(* The claims.                                                             *)

\* C1 (endpoint invariant): for every request that satisfies the documented
\* assumptions, the vertex list make() produces is not empty, starts at the
\* start pin and ends at the end pin.
C1_EndpointInvariant ==
    made /\ Valid(req) =>
        /\ Len(pts) > 0
        /\ pts[1] = req.start.middle
        /\ pts[Len(pts)] = req.end.middle

\* C2 (interior avoidance): for every request that satisfies the documented
\* assumptions, no segment of the produced vertex list passes through the
\* open interior of either bounding box.  Stated for the requests with the
\* default leads of 22um at both ends, which are shorter than every gap
\* between the boxes.
C2_InteriorAvoidance ==
    made /\ Valid(req) /\ req.leadstart = 22 /\ req.leadend = 22 =>
        /\ ~CrossesBox(pts, req.box1)
        /\ ~CrossesBox(pts, req.box2)

\* C3 (no fold): in every 1-segment (4 vertices) and 2-segment (5 vertices)
\* result, no two consecutive segments, the leads included, have exactly
\* opposite directions.
C3_NoFold ==
    made /\ Valid(req) /\ Len(pts) \in {4, 5} => ~Folds(pts)

\* C4 (shortest of two): whenever make() chose between two wrap-around
\* candidates, the kept list is no longer than the rejected one.
C4_ShortestOfTwo ==
    made /\ rejected # << >> =>
        /\ Rectilinear(pts)
        /\ Rectilinear(rejected)
        /\ RectLength(pts) <= RectLength(rejected)

\* A wrap-around choice between candidates of different lengths.
C4_Witness ==
    /\ made
    /\ rejected # << >>
    /\ RectLength(pts) < RectLength(rejected)
    /\ branch \in {"L188", "L190", "L204", "L206", "L301", "L303", "L316", "L318"}

\* C5 (determinism across calls): a call of make() with the request of the
\* first completed call yields the vertex list of that first call, whatever
\* calls with other requests were made in between.
C5_Determinism ==
    made /\ ref # NoCall /\ req = ref.req => pts = ref.pts

\* A repeated call after a call with another request has left its own list
\* in self.__pts.
C5_Witness ==
    /\ made
    /\ ref # NoCall
    /\ ref.other
    /\ req = ref.req
    /\ pts = ref.pts
    /\ Len(pts) > 0

\* C6 (totality): for every request with axis-aligned unit normals the
\* decision tree reaches a branch that assigns, and the vertex list has at
\* least 4 vertices.
C6_Totality ==
    made /\ req.start.normal \in Normals /\ req.end.normal \in Normals =>
        /\ branch # "none"
        /\ Len(pts) >= 4

\* The normals are antiparallel and the displacement between the stand-off
\* points is a positive multiple of the start normal (alignment == 1).
PerfectlyAligned ==
    /\ normdot = -1
    /\ Dot(Sub(m2ext, m1ext), req.start.normal) > 0
    /\ Cross(Sub(m2ext, m1ext), req.start.normal) = 0

\* C7 (antiparallel, perfectly aligned): make() returns the 4 vertices
\* [start, start stand-off, end stand-off, end], all on the line through the
\* start pin along its normal.
C7_AlignedOneSegment ==
    made /\ PerfectlyAligned =>
        /\ pts = << req.start.middle, m1ext, m2ext, req.end.middle >>
        /\ \A i \in 1..Len(pts) :
               Cross(Sub(pts[i], req.start.middle), req.start.normal) = 0

\* Scenario A: the 4 vertices lie on y = 0.
C7_Witness ==
    /\ made
    /\ req = ScenarioA
    /\ PerfectlyAligned
    /\ pts = << <<0, 0>>, <<27, 0>>, <<9973, 0>>, <<10000, 0>> >>

\* C8 as claimed (Scenario C): for pin (0,0) pointing down on box
\* (-1,0)-(1,1) and pin (0,-10) pointing up on box (-1,-11)-(1,-10), make()
\* returns a 3-segment result whose middle segment lies on y = -5, the
\* midline of the gap.
C8_ScenarioC_ThreeSegments ==
    made /\ req = ScenarioC =>
        /\ Len(pts) = 6
        /\ pts[3][2] = -5000
        /\ pts[4][2] = -5000

\* Antiparallel vertical normals, the pins on one vertical line facing each
\* other across a vertical gap between the boxes that is wider than the two
\* stand-off distances together.
FacingOnOneVertical ==
    /\ Valid(req)
    /\ normdot = -1
    /\ req.start.normal[1] = 0
    /\ req.start.middle[1] = req.end.middle[1]
    /\ \/ /\ req.start.normal = <<0, -1>>
          /\ req.box2[4] < req.box1[2]
          /\ m2ext[2] < m1ext[2]
       \/ /\ req.start.normal = <<0, 1>>
          /\ req.box1[4] < req.box2[2]
          /\ m1ext[2] < m2ext[2]

\* C8 as amended: for such pins, Scenario C among them, make() returns the
\* 1-segment result, 4 vertices on the vertical line through the pins.
C8_ScenarioC_OneSegment ==
    /\ made /\ FacingOnOneVertical =>
        /\ pts = << req.start.middle, m1ext, m2ext, req.end.middle >>
        /\ \A i \in 1..Len(pts) : pts[i][1] = req.start.middle[1]
    /\ made /\ req = ScenarioC =>
        pts = << <<0, 0>>, <<0, -27>>, <<0, -9973>>, <<0, -10000>> >>

\* Scenario C after make().
C8_Witness ==
    /\ made
    /\ req = ScenarioC
    /\ FacingOnOneVertical
    /\ Len(pts) = 4

\* The normals are perpendicular and each pin lies on the perimeter of the
\* enclosing box, the two on different edges.
BothOnPerimeter ==
    /\ normdot = 0
    /\ \/ /\ req.start.middle[1] \in {Enclosing[1], Enclosing[3]}
          /\ req.end.middle[2] \in {Enclosing[2], Enclosing[4]}
       \/ /\ req.start.middle[2] \in {Enclosing[2], Enclosing[4]}
          /\ req.end.middle[1] \in {Enclosing[1], Enclosing[3]}

\* The 5 vertices of a 2-segment result: the pins, the stand-off points, and
\* between them one of the two corners of the rectangle the stand-off points
\* span.
TwoSegments ==
    /\ Len(pts) = 5
    /\ pts[1] = req.start.middle
    /\ pts[2] = m1ext
    /\ pts[3] \in { <<m1ext[1], m2ext[2]>>, <<m2ext[1], m1ext[2]>> }
    /\ pts[4] = m2ext
    /\ pts[5] = req.end.middle

\* C9 (perpendicular, both pins on the perimeter): make() returns a
\* 2-segment result with exactly one interior corner vertex; so it does for
\* Scenario B.
C9_PerimeterTwoSegments ==
    /\ made /\ BothOnPerimeter => TwoSegments
    /\ made /\ req = ScenarioB => TwoSegments

\* Both pins on the perimeter, the corner away from both stand-off points.
C9_Witness ==
    /\ made
    /\ BothOnPerimeter
    /\ branch \in {"L211", "L214"}
    /\ TwoSegments
    /\ pts[3] # pts[2]
    /\ pts[3] # pts[4]

\* C10 (keep-out margin of wrap-around routes): in every result chosen from
\* two wrap-around candidates both waypoints lie on one line 0.2 mm outside
\* the enclosing box, the rejected candidate's on the line at the opposite
\* side, and the result is the strictly shorter one when the lengths differ.
C10_KeepOutMargin ==
    made /\ rejected # << >> =>
        LET axis == IF req.start.normal[2] = 0 THEN 2 ELSE 1
            outer == {Enclosing[axis] - 200, Enclosing[axis + 2] + 200}
        IN  /\ Len(pts) = 6
            /\ Len(rejected) = 6
            /\ pts[3][axis] = pts[4][axis]
            /\ rejected[3][axis] = rejected[4][axis]
            /\ {pts[3][axis], rejected[3][axis]} = outer
            /\ RectLength(pts) # RectLength(rejected) =>
                   RectLength(pts) < RectLength(rejected)

\* The route along the top of the enclosing box won over the bottom one.
C10_Witness ==
    /\ made
    /\ branch = "L188"
    /\ pts[3][2] = Enclosing[4] + 200
    /\ pts[4][2] = Enclosing[4] + 200
    /\ RectLength(pts) < RectLength(rejected)

\* C11 (shape of the getpts output): for 1, 2 and 3 segments getpts returns
\* the start pin and its stand-off point, then exactly segments - 1
\* waypoints, then the end stand-off point and the end pin; the two
\* waypoints of a 3-segment list lie on the constant line, the first at the
\* start stand-off's other coordinate and the second at the end stand-off's.
C11_GetptsShape ==
    call.segments \in {1, 2, 3} =>
        LET n == Len(pts)
            other == IF call.constaxis = 0 THEN 2 ELSE 1
            axis == IF call.constaxis = 0 THEN 1 ELSE 2
        IN  /\ n = call.segments + 3
            /\ pts[1] = req.start.middle
            /\ pts[2] = m1ext
            /\ pts[n - 1] = m2ext
            /\ pts[n] = req.end.middle
            /\ call.segments = 3 =>
                   /\ pts[3][axis] = call.constval
                   /\ pts[4][axis] = call.constval
                   /\ pts[3][other] = m1ext[other]
                   /\ pts[4][other] = m2ext[other]

\* A 3-segment call on a horizontal line, the stand-off points at different
\* x and off the line.
C11_Witness ==
    /\ call.segments = 3
    /\ call.constaxis = 1
    /\ Len(pts) = 6
    /\ m1ext[1] # m2ext[1]
    /\ m1ext[2] # call.constval
    /\ m2ext[2] # call.constval
    /\ pts[3] = <<m1ext[1], call.constval>>
    /\ pts[4] = <<m2ext[1], call.constval>>

\* C12 (registration effects of make): every completed make() has registered,
\* from the one vertex list it computed, a centre trace of width cpw_width
\* and a subtractive ground cut-out of width cpw_width + 2 * cpw_gap, exactly
\* the two pins auto_cpw_start and auto_cpw_end carrying the start and the
\* end host pin's points in reversed order, and exactly the two netlist
\* connections from the host pins to those two pins.
C12_Registration ==
    made =>
        /\ Cardinality(qgeometry) = 2
        /\ \E g \in qgeometry :
               /\ g.name = "center_trace"
               /\ g.line = pts
               /\ g.width = req.cpw_width
               /\ ~g.subtract
        /\ \E g \in qgeometry :
               /\ g.name = "gnd_cut"
               /\ g.line = pts
               /\ g.width = req.cpw_width + req.cpw_gap + req.cpw_gap
               /\ g.subtract
        /\ DOMAIN cpw_pins = {"auto_cpw_start", "auto_cpw_end"}
        /\ cpw_pins["auto_cpw_start"].points =
               << req.start.points[2], req.start.points[1] >>
        /\ cpw_pins["auto_cpw_end"].points =
               << req.end.points[2], req.end.points[1] >>
        /\ Cardinality(netlist) = 2
        /\ << <<req.start.component, req.start.name>>,
               <<"self", "auto_cpw_start">> >> \in netlist
        /\ << <<req.end.component, req.end.name>>,
               <<"self", "auto_cpw_end">> >> \in netlist

\* A completed make() of a 3-segment result between pins of two different
\* components, the two points of each host pin distinct.
C12_Witness ==
    /\ made
    /\ Len(pts) = 6
    /\ Cardinality(qgeometry) = 2
    /\ Cardinality(netlist) = 2
    /\ req.start.points[1] # req.start.points[2]
    /\ req.end.points[1] # req.end.points[2]
    /\ req.start.component # req.end.component
    /\ cpw_pins["auto_cpw_end"].points[1] = req.end.points[2]

\* The normals are antiparallel and the displacement between the stand-off
\* points has a positive component along the start normal and a non-zero
\* one across it (0 < alignment < 1).
PartlyAligned ==
    /\ normdot = -1
    /\ Dot(Sub(m2ext, m1ext), req.start.normal) > 0
    /\ Cross(Sub(m2ext, m1ext), req.start.normal) # 0

\* Twice the coordinate, on axis k (1 for x, 2 for y), of the middle of the
\* gap between the two boxes: the sum of the two box edges that face the gap.
\* The boxes are apart along that axis.
TwiceGapMiddle(k) ==
    IF req.box1[k + 2] < req.box2[k]
    THEN req.box1[k + 2] + req.box2[k]
    ELSE req.box2[k + 2] + req.box1[k]

\* The boxes are apart along axis k.
ApartAlong(k) ==
    \/ req.box1[k + 2] < req.box2[k]
    \/ req.box2[k + 2] < req.box1[k]

\* C13 (S-bend midline): whenever the normals are antiparallel and
\* 0 < alignment < 1, make() returns a 3-segment result whose middle segment
\* lies halfway between the two box edges that face the gap along the normal
\* axis, for boxes of any sizes.
C13_SBendMidline ==
    made /\ Valid(req) /\ PartlyAligned =>
        LET k == IF req.start.normal[2] = 0 THEN 1 ELSE 2
        IN  /\ Len(pts) = 6
            /\ ApartAlong(k)
            /\ 2 * pts[3][k] = TwiceGapMiddle(k)
            /\ 2 * pts[4][k] = TwiceGapMiddle(k)

\* C14 (no fold in 3-segment results): in every 3-segment result of make()
\* (6 vertices) no two consecutive segments have exactly opposite
\* directions; in particular the segment that leaves the start stand-off
\* point is not directed against the start normal, and the segment that
\* arrives at the end stand-off point does not travel along the end normal.
C14_NoFoldThreeSegments ==
    made /\ Valid(req) /\ Len(pts) = 6 =>
        /\ ~Folds(pts)
        /\ Dot(Sub(pts[3], pts[2]), req.start.normal) >= 0
        /\ Dot(Sub(pts[5], pts[4]), req.end.normal) <= 0

\* The normals point in the same direction and the pins lie on one line
\* perpendicular to them (the 1-segment condition of the parallel family).
SideBySide ==
    /\ normdot = 1
    /\ \/ req.start.middle[1] = req.end.middle[1]
       \/ req.start.middle[2] = req.end.middle[2]
    /\ Dot(req.start.normal, Sub(req.end.middle, req.start.middle)) = 0

\* The 6 vertices of a wrap-around result: both waypoints on one of the two
\* lines 0.2 mm outside the enclosing box along axis k, and no longer than
\* the candidate on the other line.
WrapAround(k) ==
    /\ Len(pts) = 6
    /\ pts[1] = req.start.middle
    /\ pts[2] = m1ext
    /\ pts[5] = m2ext
    /\ pts[6] = req.end.middle
    /\ pts[3][k] = pts[4][k]
    /\ pts[3][k] \in {Enclosing[k] - 200, Enclosing[k + 2] + 200}
    /\ rejected # << >>
    /\ rejected[3][k] \in {Enclosing[k] - 200, Enclosing[k + 2] + 200} \ {pts[3][k]}
    /\ RectLength(pts) <= RectLength(rejected)

\* The boxes' extents along axis k do not overlap: they share at most an end
\* point.
Separated(k) ==
    \/ req.box1[k + 2] <= req.box2[k]
    \/ req.box2[k + 2] <= req.box1[k]

\* C15 (parallel family topology): when the normals point in the same
\* direction and the 1-segment condition does not hold, make() returns a
\* 2-segment result exactly when the boxes' extents are separated
\* (non-overlapping) along the axis perpendicular to the normals, and
\* otherwise the shorter of the two wrap-around candidates.
C15_ParallelTopology ==
    made /\ Valid(req) /\ normdot = 1 /\ ~SideBySide =>
        LET k == IF req.start.normal[2] = 0 THEN 2 ELSE 1
        IN  /\ TwoSegments <=> Separated(k)
            /\ ~Separated(k) => WrapAround(k)

\* C16 (antiparallel, alignment < 0): if the boxes' extents are apart along
\* the axis perpendicular to the normals, make() returns a 3-segment result
\* whose middle segment lies on the middle of that gap, strictly between the
\* two boxes; only when the extents are not apart does it choose between the
\* two wrap-around candidates.
C16_GapCrossing ==
    made /\ normdot = -1 /\ Dot(Sub(m2ext, m1ext), req.start.normal) < 0 =>
        LET k == IF req.start.normal[2] = 0 THEN 2 ELSE 1
        IN  /\ ApartAlong(k) =>
                /\ Len(pts) = 6
                /\ rejected = << >>
                /\ pts[3][k] = pts[4][k]
                /\ 2 * pts[3][k] = TwiceGapMiddle(k)
                /\ Min(req.box1[k + 2], req.box2[k + 2]) < pts[3][k]
                /\ pts[3][k] < Max(req.box1[k], req.box2[k])
                /\ pts[3][3 - k] = m1ext[3 - k]
                /\ pts[4][3 - k] = m2ext[3 - k]
            /\ ~ApartAlong(k) => WrapAround(k)

\* Horizontal normals pointing away from each other, the end box above the
\* start box and larger than it: the middle segment is on the middle of the
\* vertical gap, not of the outer edges.
C16_Witness ==
    /\ made
    /\ branch = "L178"
    /\ req.box2[4] - req.box2[2] # req.box1[4] - req.box1[2]
    /\ Len(pts) = 6
    /\ 2 * pts[3][2] = req.box1[4] + req.box2[2]
    /\ 2 * pts[4][2] = req.box1[4] + req.box2[2]

\* The pin lies on the perimeter of the enclosing box.
OnPerimeter(pin) ==
    \/ pin.middle[1] \in {Enclosing[1], Enclosing[3]}
    \/ pin.middle[2] \in {Enclosing[2], Enclosing[4]}

\* C17 (perpendicular, exactly one pin on the perimeter): make() returns a
\* 2-segment result exactly when the box of the perimeter pin lies strictly
\* beyond the other box in the direction the other pin's normal points;
\* otherwise a 3-segment result whose middle segment is 0.2 mm beyond the
\* enclosing box's edge on the side that normal points to.  The rule is the
\* same whichever of the two pins is the one on the perimeter.
C17_OnePinOnPerimeter ==
    made /\ Valid(req) /\ normdot = 0
         /\ (OnPerimeter(req.start) # OnPerimeter(req.end)) =>
        LET startOn == OnPerimeter(req.start)
            per == IF startOn THEN req.box1 ELSE req.box2
            oth == IF startOn THEN req.box2 ELSE req.box1
            n == IF startOn THEN req.end.normal ELSE req.start.normal
            k == IF n[2] = 0 THEN 1 ELSE 2
            beyond == IF n[k] > 0 THEN per[k] > oth[k + 2]
                      ELSE per[k + 2] < oth[k]
            line == IF n[k] > 0 THEN Enclosing[k + 2] + 200
                    ELSE Enclosing[k] - 200
        IN  /\ TwoSegments <=> beyond
            /\ ~beyond =>
                   /\ Len(pts) = 6
                   /\ pts[2] = m1ext
                   /\ pts[5] = m2ext
                   /\ pts[3][k] = line
                   /\ pts[4][k] = line

\* The end pin on the perimeter, the start pin pointing down but the end box
\* not below the start box: the middle segment runs 0.2 mm below the
\* enclosing box.
C17_Witness ==
    /\ made
    /\ normdot = 0
    /\ OnPerimeter(req.end)
    /\ ~OnPerimeter(req.start)
    /\ req.start.normal = <<0, -1>>
    /\ ~(req.box2[4] < req.box1[2])
    /\ Len(pts) = 6
    /\ pts[3][2] = Enclosing[2] - 200
    /\ pts[4][2] = Enclosing[2] - 200

\* Neither lead has to reverse to reach the corner c: its displacements from
\* the two stand-off points have non-negative components along the pins'
\* normals.
Reachable(c) ==
    /\ Dot(Sub(c, m1ext), req.start.normal) >= 0
    /\ Dot(Sub(c, m2ext), req.end.normal) >= 0

\* C18 (2-segment corner selection): getpts with 2 segments selects one of
\* the two diagonal corners of the rectangle the stand-off points span, and
\* whenever at least one of the two corners has non-negative dot products
\* with both normals, the selected corner has that property.
C18_CornerSelection ==
    call.segments = 2 =>
        LET corners == { <<m1ext[1], m2ext[2]>>, <<m2ext[1], m1ext[2]>> }
        IN  /\ Len(pts) = 5
            /\ pts[3] \in corners
            /\ (\E c \in corners : Reachable(c)) => Reachable(pts[3])

\* A 2-segment call in which exactly one of the two corners can be reached
\* without reversing, and only by the fall-back comparison of line 74 (one
\* of its two dot products is zero).
C18_Witness ==
    /\ call.segments = 2
    /\ Len(pts) = 5
    /\ Reachable(pts[3])
    /\ \E c \in { <<m1ext[1], m2ext[2]>>, <<m2ext[1], m1ext[2]>> } : ~Reachable(c)
    /\ \/ Dot(Sub(pts[3], m1ext), req.start.normal) = 0
       \/ Dot(Sub(pts[3], m2ext), req.end.normal) = 0

\* C19 (tie-breaking of wrap-around candidates): when the two wrap-around
\* candidates have equal total length, make() keeps the bottom candidate for
\* horizontal normals and the right candidate for vertical normals, in the
\* antiparallel and in the parallel family alike.
C19_TieBreaking ==
    made /\ rejected # << >> /\ RectLength(pts) = RectLength(rejected) =>
        /\ Len(pts) = 6
        /\ normdot \in {-1, 1}
        /\ IF req.start.normal[2] = 0
           THEN /\ pts[3][2] = Enclosing[2] - 200
                /\ pts[4][2] = Enclosing[2] - 200
           ELSE /\ pts[3][1] = Enclosing[3] + 200
                /\ pts[4][1] = Enclosing[3] + 200

\* A tie between the left and the right candidate of the parallel family,
\* the two differing.
C19_Witness ==
    /\ made
    /\ normdot = 1
    /\ req.start.normal[1] = 0
    /\ rejected # << >>
    /\ rejected # pts
    /\ RectLength(pts) = RectLength(rejected)
    /\ pts[3][1] = Enclosing[3] + 200

\* A tie between the top and the bottom candidate of the antiparallel family.
C19_WitnessAntiparallel ==
    /\ made
    /\ normdot = -1
    /\ req.start.normal[2] = 0
    /\ rejected # << >>
    /\ RectLength(pts) = RectLength(rejected)
    /\ pts[3][2] = Enclosing[2] - 200

\* The vertex list p without the vertices that repeat their predecessor.
RECURSIVE Distinct(_)
Distinct(p) ==
    IF Len(p) < 2 THEN p
    ELSE IF p[1] = p[2] THEN Distinct(Tail(p))
    ELSE <<p[1]>> \o Distinct(Tail(p))

\* No vertex of p repeats its predecessor.
NoRepeat(p) == \A i \in 1..(Len(p) - 1) : p[i] # p[i + 1]

\* C20 as claimed (direction symmetry): for every request that satisfies the documented
\* assumptions, make() on the request with start and end exchanged (pins,
\* leads and boxes) yields the vertex list of the original request in
\* reversed order.
C20_DirectionSymmetry ==
    made /\ ref # NoCall /\ Valid(ref.req) /\ req = Exchanged(ref.req) =>
        pts = Reversed(ref.pts)

\* C20 as amended: make() on the exchanged request yields a vertex list of
\* the same length that is the reversed list of the original request once
\* the vertices that repeat their predecessor are dropped from both, so
\* exactly the reversed list whenever no vertex of either list repeats.
C20_SymmetryUpToRepeats ==
    made /\ ref # NoCall /\ Valid(ref.req) /\ req = Exchanged(ref.req) =>
        /\ Len(pts) = Len(ref.pts)
        /\ Distinct(pts) = Reversed(Distinct(ref.pts))
        /\ NoRepeat(pts) /\ NoRepeat(ref.pts) => pts = Reversed(ref.pts)

\* The exchanged request of a 2-segment result with a proper corner: the
\* same corner, the list reversed.
C20_Witness ==
    /\ made
    /\ ref # NoCall
    /\ Valid(ref.req)
    /\ req = Exchanged(ref.req)
    /\ req # ref.req
    /\ Len(pts) = 5
    /\ NoRepeat(pts)
    /\ pts[3] = ref.pts[3]
    /\ pts = Reversed(ref.pts)

====
